---- MODULE Spec2Model ----
(***************************************************************************)
(* Model of split_owned (src/src/lib.rs): an owned array [T; N] is split   *)
(* into ([T; K], [T; L]).  The const assertion N == K + L is evaluated     *)
(* when the program is built; the body wraps every element in MaybeUninit, *)
(* swaps the first K slots into arr_k and the next L slots into arr_l and  *)
(* finally assumes both destination arrays initialised.                    *)
(*                                                                         *)
(* A program is a source array and a chain of call sites, as in the test   *)
(* split_zero, where the output of one call is split again.  The build     *)
(* goes through the call sites in order before anything runs.              *)
(***************************************************************************)
EXTENDS Integers, Sequences, FiniteSets

\* ---- bounds --------------------------------------------------------------
MaxN == 3
MaxCalls == 2
Vals == {0, 1}

\* ---- elements and slots --------------------------------------------------
\* An element of type T: a value plus its identity (its position in the
\* array the program starts with).  Two elements may carry equal values.
Element(j, v) == [id |-> j, val |-> v]

\* MaybeUninit<T>: a slot is either uninitialised or holds one element.
Uninit == << >>

MaybeUninitNew(el) == << el >>

IsInit(slot) == slot # Uninit

\* What reading an uninitialised T can yield (undefined behaviour).
Garbage == {Element(0, v) : v \in Vals}

\* MaybeUninit::assume_init: the set of values the call may produce.
AssumeInit(slot) == IF IsInit(slot) THEN {slot[1]} ELSE Garbage

\* MaybeUninit<T> has no drop glue: dropping a slot drops no element.
DropGlue(slot) == {}

\* 0-based indexing of the source language on 1-based sequences.
At(seq, idx) == seq[idx + 1]

InBounds(seq, idx) == idx >= 0 /\ idx < Len(seq)

Put(seq, idx, slot) == [seq EXCEPT ![idx + 1] = slot]

Occupied(seq) == Cardinality({j \in 1..Len(seq) : IsInit(seq[j])})

\* ---- programs ------------------------------------------------------------
Sources == UNION {[1..n -> Vals] : n \in 0..MaxN}

MakeArray(vs) == [j \in 1..Len(vs) |-> Element(j, vs[j])]

\* The lengths a call site can name for K and L.
Sizes == 0..MaxN

\* The array a call site is applied to: the program's source array for the
\* first call, one of the outputs of the previous call for a later one.
Receivers(p) == IF p = << >> THEN {"self"} ELSE {"left", "right"}

CallSite(k, l, from) == [K |-> k, L |-> l, from |-> from]

VARIABLES source, prog, c, pc, self, arr, arr_k, arr_l, i, out_k, out_l,
          results, dropped, ub, srcAcc, kAcc, lAcc, stale

vars == << source, prog, c, pc, self, arr, arr_k, arr_l, i, out_k, out_l,
           results, dropped, ub, srcAcc, kAcc, lAcc, stale >>

\* Const generic parameters of call site s.
KOf(s) == prog[s].K

LOf(s) == prog[s].L

\* N of call site s is the length in the type of the array it is called on.
NOfIn(p, s) == IF s = 1 THEN Len(source)
               ELSE IF p[s].from = "left" THEN p[s - 1].K ELSE p[s - 1].L

NOf(s) == NOfIn(prog, s)

K == KOf(c)

L == LOf(c)

N == NOf(c)

\* ---- the const assertion -------------------------------------------------
\* Faulty variants: the assertion left out; empty halves refused.
ConstAssertAlways(n, k, l) == TRUE

ConstAssertNonEmpty(n, k, l) == n = k + l /\ k > 0 /\ l > 0

ConstAssert(n, k, l) == n = k + l

\* ---- the relocation loops ------------------------------------------------
\* Faulty variant: the body runs once before the range is tested.
LoopContinuesDoWhile(idx, bound) == idx = 0 \/ idx < bound

LoopContinues(idx, bound) == idx < bound

\* Faulty variants: the left half read back to front; the offset K forgotten.
LeftSrcReversed(idx, k) == k - 1 - idx

LeftSrc(idx, k) == idx

RightSrcNoOffset(idx, k) == idx

RightSrc(idx, k) == idx + k

\* Faulty variant: the value is copied and the source slot keeps it.
SwapCopy(a, b) == << b, b >>

\* std::mem::swap(a, b) on two slots: the pair (new a, new b).

Swap(a, b) == << b, a >>

Bump(acc, idx) == [acc EXCEPT ![idx + 1] = @ + 1]

Init ==
    /\ source \in {MakeArray(vs) : vs \in Sources}
    /\ prog = << >>
    /\ c = 0
    /\ pc = "build"
    /\ self = source
    /\ arr = << >>
    /\ arr_k = << >>
    /\ arr_l = << >>
    /\ i = 0
    /\ out_k = << >>
    /\ out_l = << >>
    /\ results = << >>
    /\ dropped = {}
    /\ ub = FALSE
    /\ srcAcc = << >>
    /\ kAcc = << >>
    /\ lAcc = << >>
    /\ stale = FALSE

\* The build reaches the next call site, split_owned::<k, l>() applied to
\* `from`, and evaluates its const block.  A failed assertion rejects the
\* program; after the last call site the built program starts to run.
EvalConstAssert ==
    /\ pc = "build"
    /\ Len(prog) < MaxCalls
    /\ \E k \in Sizes, l \in Sizes, from \in Receivers(prog), last \in BOOLEAN :
          LET p == Append(prog, CallSite(k, l, from))
              s == Len(p)
          IN  /\ prog' = p
              /\ IF ConstAssert(NOfIn(p, s), k, l)
                 THEN IF last \/ s = MaxCalls
                      THEN /\ c' = 1
                           /\ pc' = "wrap"
                      ELSE /\ c' = s
                           /\ pc' = "build"
                 ELSE /\ c' = s
                      /\ pc' = "rejected"
    /\ UNCHANGED << source, self, arr, arr_k, arr_l, i, out_k, out_l,
                    results, dropped, ub, srcAcc, kAcc, lAcc, stale >>

\* Entry of split_owned: wrap the elements, create the destinations.
Wrap ==
    /\ pc = "wrap"
    /\ arr' = [j \in 1..Len(self) |-> MaybeUninitNew(self[j])]
    /\ arr_k' = [j \in 1..K |-> Uninit]
    /\ arr_l' = [j \in 1..L |-> Uninit]
    /\ srcAcc' = [j \in 1..Len(self) |-> 0]
    /\ kAcc' = [j \in 1..K |-> 0]
    /\ lAcc' = [j \in 1..L |-> 0]
    /\ stale' = FALSE
    /\ i' = 0
    /\ pc' = "loop_k"
    /\ UNCHANGED << source, prog, c, self, out_k, out_l, results, dropped, ub >>

\* One step of `for i in 0..K { swap(&mut arr_k[i], &mut arr[i]) }`.
LoopK ==
    /\ pc = "loop_k"
    /\ IF LoopContinues(i, K)
       THEN IF InBounds(arr_k, i) /\ InBounds(arr, LeftSrc(i, K))
            THEN LET s == LeftSrc(i, K)
                     sw == Swap(At(arr_k, i), At(arr, s))
                 IN  /\ arr_k' = Put(arr_k, i, sw[1])
                     /\ arr' = Put(arr, s, sw[2])
                     /\ srcAcc' = Bump(srcAcc, s)
                     /\ kAcc' = Bump(kAcc, i)
                     /\ stale' = (stale \/ ~IsInit(At(arr, s)) \/ IsInit(At(arr_k, i)))
                     /\ i' = i + 1
                     /\ pc' = "loop_k"
            ELSE /\ pc' = "panicked"
                 /\ UNCHANGED << arr, arr_k, srcAcc, kAcc, stale, i >>
       ELSE /\ pc' = "loop_l"
            /\ i' = 0
            /\ UNCHANGED << arr, arr_k, srcAcc, kAcc, stale >>
    /\ UNCHANGED << source, prog, c, self, arr_l, out_k, out_l, results,
                    dropped, ub, lAcc >>

\* One step of `for i in 0..L { swap(&mut arr_l[i], &mut arr[i + K]) }`.
LoopL ==
    /\ pc = "loop_l"
    /\ IF LoopContinues(i, L)
       THEN IF InBounds(arr_l, i) /\ InBounds(arr, RightSrc(i, K))
            THEN LET s == RightSrc(i, K)
                     sw == Swap(At(arr_l, i), At(arr, s))
                 IN  /\ arr_l' = Put(arr_l, i, sw[1])
                     /\ arr' = Put(arr, s, sw[2])
                     /\ srcAcc' = Bump(srcAcc, s)
                     /\ lAcc' = Bump(lAcc, i)
                     /\ stale' = (stale \/ ~IsInit(At(arr, s)) \/ IsInit(At(arr_l, i)))
                     /\ i' = i + 1
                     /\ pc' = "loop_l"
            ELSE /\ pc' = "panicked"
                 /\ UNCHANGED << arr, arr_l, srcAcc, lAcc, stale, i >>
       ELSE /\ pc' = "assume"
            /\ i' = 0
            /\ UNCHANGED << arr, arr_l, srcAcc, lAcc, stale >>
    /\ UNCHANGED << source, prog, c, self, arr_k, out_k, out_l, results,
                    dropped, ub, kAcc >>

\* arr_k.map(assume_init), arr_l.map(assume_init).
AssumeInitArrays ==
    /\ pc = "assume"
    /\ out_k' \in {o \in [1..Len(arr_k) -> UNION {AssumeInit(arr_k[j]) : j \in 1..Len(arr_k)}] :
                      \A j \in 1..Len(arr_k) : o[j] \in AssumeInit(arr_k[j])}
    /\ out_l' \in {o \in [1..Len(arr_l) -> UNION {AssumeInit(arr_l[j]) : j \in 1..Len(arr_l)}] :
                      \A j \in 1..Len(arr_l) : o[j] \in AssumeInit(arr_l[j])}
    /\ ub' = (ub \/ Occupied(arr_k) # Len(arr_k) \/ Occupied(arr_l) # Len(arr_l))
    /\ pc' = "ret"
    /\ UNCHANGED << source, prog, c, self, arr, arr_k, arr_l, i, results,
                    dropped, srcAcc, kAcc, lAcc, stale >>

\* Return (arr_k, arr_l); the local `arr` goes out of scope.
Return ==
    /\ pc = "ret"
    /\ dropped' = dropped \cup UNION {DropGlue(arr[j]) : j \in 1..Len(arr)}
    /\ results' = Append(results, [src |-> self, K |-> K, L |-> L,
                                   left |-> out_k, right |-> out_l])
    /\ pc' = "done"
    /\ UNCHANGED << source, prog, c, self, arr, arr_k, arr_l, i, out_k, out_l,
                    ub, srcAcc, kAcc, lAcc, stale >>

\* The caller splits one of the two outputs again.
NextCall ==
    /\ pc = "done"
    /\ c < Len(prog)
    /\ c' = c + 1
    /\ self' = IF prog[c + 1].from = "left" THEN results[c].left ELSE results[c].right
    /\ pc' = "wrap"
    /\ UNCHANGED << source, prog, arr, arr_k, arr_l, i, out_k, out_l, results,
                    dropped, ub, srcAcc, kAcc, lAcc, stale >>

Next ==
    \/ EvalConstAssert
    \/ Wrap
    \/ LoopK
    \/ LoopL
    \/ AssumeInitArrays
    \/ Return
    \/ NextCall

Spec == Init /\ [][Next]_vars

\* The call is synchronous and has no suspension point: it keeps stepping.
FairSpec == Spec /\ WF_vars(Next)

\* ---- helpers for the properties ------------------------------------------
\* Number of slots of seq that hold element e.
SlotsHolding(seq, e) == Cardinality({j \in 1..Len(seq) : seq[j] = MaybeUninitNew(e)})

\* Number of positions of the array seq (of T) that hold element e.
PositionsHolding(seq, e) == Cardinality({j \in 1..Len(seq) : seq[j] = e})

\* Some call site of the program violates N == K + L.
Mismatch == \E s \in 1..Len(prog) : NOf(s) # KOf(s) + LOf(s)

InBody == pc \in {"loop_k", "loop_l", "assume"}

\* ---- C1 -------------------------------------------------------------------
\* C1: when split_owned returns, left has K elements with left[j] = source[j],
\* right has L elements with right[j] = source[K + j], and left followed by
\* right is the source.
C1_Partition ==
    pc = "done" =>
        LET r == results[c]
        IN  /\ N = K + L
            /\ Len(r.left) = K
            /\ Len(r.right) = L
            /\ \A j \in 1..K : r.left[j] = self[j]
            /\ \A j \in 1..L : r.right[j] = self[K + j]
            /\ r.left \o r.right = self

C1_Witness ==
    /\ pc = "done"
    /\ K = 1
    /\ L = 2
    /\ results[c].left = << self[1] >>
    /\ results[c].right = << self[2], self[3] >>

\* ---- C2 -------------------------------------------------------------------
\* C2: when split_owned returns, every source element (by identity) is held
\* by exactly one slot of left or right, and the outputs hold N elements.
C2_ExactlyOnce ==
    pc = "done" =>
        LET r == results[c]
        IN  /\ Len(r.left) + Len(r.right) = Len(self)
            /\ Len(self) = N
            /\ \A j \in 1..Len(self) :
                  PositionsHolding(r.left, self[j]) + PositionsHolding(r.right, self[j]) = 1

C2_Witness ==
    /\ pc = "done"
    /\ Len(self) = 3
    /\ K = 2
    /\ self[1].val = self[2].val
    /\ self[2].val = self[3].val
    /\ \A j \in 1..3 :
          PositionsHolding(results[c].left, self[j])
              + PositionsHolding(results[c].right, self[j]) = 1

\* ---- C3 -------------------------------------------------------------------
\* C3: a program with a call site where N # K + L is rejected when it is
\* built: no call ever starts, no slot is created, read or written and no
\* output is produced.
C3_BuildTimeRejection ==
    Mismatch =>
        /\ pc \in {"build", "rejected"}
        /\ arr = << >> /\ arr_k = << >> /\ arr_l = << >>
        /\ srcAcc = << >> /\ kAcc = << >> /\ lAcc = << >>
        /\ out_k = << >> /\ out_l = << >>
        /\ results = << >>
        /\ self = source

C3_Witness ==
    /\ pc = "rejected"
    /\ c = 1
    /\ N = 3
    /\ K = 1
    /\ L = 1
    /\ results = << >>

\* ---- C4 -------------------------------------------------------------------
\* C4: a split with K = 0, L = 0 or N = 0 (and N = K + L) is neither rejected
\* nor fails; K = 0 gives an empty left and right = source, L = 0 gives
\* left = source and an empty right, N = 0 gives two empty outputs.
C4_Degenerate ==
    /\ (pc = "rejected" => ~(N = K + L /\ (K = 0 \/ L = 0)))
    /\ (pc = "panicked" => ~(N = K + L /\ (K = 0 \/ L = 0)))
    /\ (pc = "done" /\ K = 0 /\ L = N =>
            results[c].left = << >> /\ results[c].right = self)
    /\ (pc = "done" /\ K = N /\ L = 0 =>
            results[c].left = self /\ results[c].right = << >>)
    /\ (pc = "done" /\ N = 0 /\ K = 0 /\ L = 0 =>
            results[c].left = << >> /\ results[c].right = << >>)

C4_Witness ==
    /\ pc = "done"
    /\ c = 2
    /\ results[1].K = 0
    /\ results[1].L = 2
    /\ results[1].left = << >>
    /\ results[1].right = source
    /\ prog[2].from = "left"
    /\ N = 0
    /\ results[2].left = << >>
    /\ results[2].right = << >>

\* ---- C5 -------------------------------------------------------------------
\* Every index the next loop iteration uses is inside its array.
LoopIndexInBounds ==
    /\ (pc = "loop_k" /\ i < K =>
            /\ i < Len(arr_k) /\ Len(arr_k) = K
            /\ i < Len(arr) /\ Len(arr) = N)
    /\ (pc = "loop_l" /\ i < L =>
            /\ i < Len(arr_l) /\ Len(arr_l) = L
            /\ i + K < Len(arr) /\ Len(arr) = N)

\* C5: split_owned never panics, every loop index is in bounds, and a call
\* that was entered reaches its return.
C5_NoRuntimeFailure ==
    /\ [](pc # "panicked" /\ LoopIndexInBounds)
    /\ (pc = "wrap" ~> pc = "done")

C5_Witness ==
    /\ pc = "loop_l"
    /\ K = 1
    /\ L = 2
    /\ i = 1
    /\ IsInit(At(arr, i + K))

\* ---- C6 -------------------------------------------------------------------
\* C6: no element is dropped by split_owned, and when the source storage is
\* discarded every one of its slots is empty.
C6_NoDrop ==
    /\ dropped = {}
    /\ (pc \in {"ret", "done"} => Occupied(arr) = 0 /\ Len(arr) = N)

C6_Witness ==
    /\ pc = "done"
    /\ Len(arr) = 3
    /\ K = 1
    /\ Occupied(arr) = 0
    /\ dropped = {}

\* ---- C7 -------------------------------------------------------------------
\* C7: splitting with K = 0, L = N and splitting the right output again with
\* K = N, L = 0 gives the original sequence as left and an empty right.
C7_RoundTrip ==
    \A s \in 1..(Len(results) - 1) :
        ( /\ results[s].K = 0
          /\ results[s].L = Len(results[s].src)
          /\ prog[s + 1].from = "right"
          /\ results[s + 1].K = Len(results[s].src)
          /\ results[s + 1].L = 0 )
        => /\ results[s + 1].left = results[s].src
           /\ results[s + 1].right = << >>

C7_Witness ==
    /\ pc = "done"
    /\ Len(results) = 2
    /\ Len(source) = 3
    /\ results[1].K = 0
    /\ results[1].L = 3
    /\ prog[2].from = "right"
    /\ results[2].K = 3
    /\ results[2].L = 0
    /\ results[2].left = source

\* ---- C8 -------------------------------------------------------------------
\* C8: where the destinations are assumed initialised, all N source slots are
\* empty and all K left and L right slots hold a value; assume_init is never
\* applied to an uninitialised slot.
C8_InitialisedAtAssume ==
    /\ ub = FALSE
    /\ (pc = "assume" =>
            /\ Len(arr) = N /\ Occupied(arr) = 0
            /\ Len(arr_k) = K /\ Occupied(arr_k) = K
            /\ Len(arr_l) = L /\ Occupied(arr_l) = L)

C8_Witness ==
    /\ pc = "assume"
    /\ K = 2
    /\ L = 1
    /\ Occupied(arr) = 0
    /\ Occupied(arr_k) = 2
    /\ Occupied(arr_l) = 1

\* ---- C9 -------------------------------------------------------------------
\* C9: source slot j is accessed exactly once, by iteration j of the left
\* loop (j < K) or iteration j - K of the right loop; every destination slot
\* is written exactly once; no swap reads a slot already moved out of or
\* writes a slot already filled.
C9_MovedOnce ==
    /\ stale = FALSE
    /\ (pc = "loop_k" =>
            /\ \A j \in 0..(Len(arr) - 1) : At(srcAcc, j) = IF j < i THEN 1 ELSE 0
            /\ \A j \in 0..(K - 1) : At(kAcc, j) = IF j < i THEN 1 ELSE 0
            /\ \A j \in 0..(L - 1) : At(lAcc, j) = 0)
    /\ (pc = "loop_l" =>
            /\ \A j \in 0..(Len(arr) - 1) : At(srcAcc, j) = IF j < K + i THEN 1 ELSE 0
            /\ \A j \in 0..(K - 1) : At(kAcc, j) = 1
            /\ \A j \in 0..(L - 1) : At(lAcc, j) = IF j < i THEN 1 ELSE 0)
    /\ (pc \in {"assume", "ret", "done"} =>
            /\ \A j \in 0..(Len(arr) - 1) : At(srcAcc, j) = 1
            /\ \A j \in 0..(K - 1) : At(kAcc, j) = 1
            /\ \A j \in 0..(L - 1) : At(lAcc, j) = 1)

C9_Witness ==
    /\ pc = "assume"
    /\ K = 1
    /\ L = 2
    /\ srcAcc = << 1, 1, 1 >>
    /\ kAcc = << 1 >>
    /\ lAcc = << 1, 1 >>

\* ---- C10 ------------------------------------------------------------------
\* Each element is in exactly one slot and N slots are occupied in total.
Conservation ==
    InBody =>
        /\ \A j \in 1..Len(self) :
              SlotsHolding(arr, self[j]) + SlotsHolding(arr_k, self[j])
                  + SlotsHolding(arr_l, self[j]) = 1
        /\ Occupied(arr) + Occupied(arr_k) + Occupied(arr_l) = N
        /\ Len(self) = N

\* A swap step empties one source slot, fills one empty destination slot with
\* that value and leaves every other slot as it was.
SwapStepMoves(dst, dstOther) ==
    \E p \in 1..Len(arr) : \E q \in 1..Len(dst) :
        /\ IsInit(arr[p])
        /\ ~IsInit(dst[q])
        /\ arr' = [arr EXCEPT ![p] = Uninit]
        /\ dst' = [dst EXCEPT ![q] = arr[p]]
        /\ dstOther' = dstOther

SwapStep ==
    /\ (pc = "loop_k" /\ i < K => SwapStepMoves(arr_k, arr_l))
    /\ (pc = "loop_l" /\ i < L => SwapStepMoves(arr_l, arr_k))

\* C10: in every intermediate state of split_owned each element is held by
\* exactly one slot of the source and the two destinations, the occupied
\* slots number N, and each swap moves one value and changes nothing else.
C10_Conservation == []Conservation /\ [][SwapStep]_vars

C10_Witness ==
    /\ pc = "loop_l"
    /\ K = 1
    /\ L = 2
    /\ i = 1
    /\ Occupied(arr) = 1
    /\ Occupied(arr_k) = 1
    /\ Occupied(arr_l) = 1

====
